---- MODULE Spec2Model ----
(***************************************************************************)
(* Codify: the /explain endpoint of backend/main.py (request validation by *)
(* the ExplainRequest model, line indexing, video search, response) and    *)
(* the Streamlit client of app.py (empty-code guard, result rendering,     *)
(* display_youtube_list).                                                  *)
(*                                                                         *)
(* Text is a sequence of one-character strings.  Requests are indexed by   *)
(* the domain of pc; every request walks the handler independently.        *)
(***************************************************************************)
EXTENDS Naturals, Sequences, FiniteSets

VARIABLES
    apiKey,     \* YOUTUBE_API_KEY is set (module global)
    haveLib,    \* googleapiclient could be imported (youtube_build is not None)
    origin,     \* per request: "ui" (posted by app.py) or "api" (posted directly)
    payload,    \* per request: the JSON body [code, language, options]
    pc,         \* per request: position of the request
    req,        \* per request: the parsed ExplainRequest
    lines,      \* per request: the handler's local `lines`
    videos,     \* per request: the handler's local `videos`
    queries,    \* per request: the queries youtube_search was called with
    searched,   \* per request: how youtube_search ended
    resp,       \* per request: the response body
    status,     \* per request: the HTTP status (0: none yet)
    raisedBy,   \* per request: the step whose exception ended the request
    logged,     \* per request: the exceptions written to the log
    shown,      \* per request: what app.py rendered from the result
    dvideos,    \* display_youtube_list: its argument
    di,         \* display_youtube_list: number of entries the loop has consumed
    played      \* display_youtube_list: the (title, url) pairs rendered so far

vars == <<apiKey, haveLib, origin, payload, pc, req, lines, videos, queries,
          searched, resp, status, raisedBy, logged, shown, dvideos, di, played>>

reqVars == <<apiKey, haveLib, origin, payload, pc, req, lines, videos, queries,
             searched, resp, status, raisedBy, logged, shown>>

displayVars == <<dvideos, di, played>>

----------------------------------------------------------------------------
(* Bounds of the model *)

\* longest source text drawn character by character
MaxLen == 3

\* most items a video search returns in the model
MaxItems == 2

\* most entries handed to display_youtube_list
MaxVideos == 2

(* Program constants *)

\* req.code.splitlines()[0][:50]
QueryLen == 50

----------------------------------------------------------------------------
(* Text *)

LF == "\n"
CR == "\r"
Alphabet == {"a", " ", LF, CR}

\* str.splitlines line boundaries (those of the alphabet)
IsLineBreak(c) == c \in {LF, CR}

\* str.strip whitespace (that of the alphabet)
IsSpace(c) == c \in {" ", LF, CR}

Min(S) == CHOOSE x \in S : \A y \in S : x <= y
Max(S) == CHOOSE x \in S : \A y \in S : x >= y

SeqsUpTo(S, n) == UNION {[1..k -> S] : k \in 0..n}

Repeat(c, n) == [i \in 1..n |-> c]

\* s[:n]
Slice(s, n) == SubSeq(s, 1, IF Len(s) < n THEN Len(s) ELSE n)

\* s.startswith(p)
startswith(s, p) == Len(s) >= Len(p) /\ SubSeq(s, 1, Len(p)) = p

\* s.strip()
strip(s) ==
    LET keep == {k \in 1..Len(s) : ~IsSpace(s[k])}
    IN  IF keep = {} THEN <<>> ELSE SubSeq(s, Min(keep), Max(keep))

\* s.splitlines(), from position j on
RECURSIVE SplitFrom(_, _)
SplitFrom(s, j) ==
    IF j > Len(s) THEN <<>>
    ELSE LET brk  == {k \in j..Len(s) : IsLineBreak(s[k])}
             eol  == IF brk = {} THEN Len(s) + 1 ELSE Min(brk)
             next == IF eol > Len(s) THEN eol
                     ELSE IF s[eol] = CR /\ eol < Len(s) /\ s[eol + 1] = LF
                          THEN eol + 2
                          ELSE eol + 1
         IN  <<SubSeq(s, j, eol - 1)>> \o SplitFrom(s, next)

splitlines(s) == SplitFrom(s, 1)

----------------------------------------------------------------------------
(* Inputs *)

\* a line longer than the query limit
LongLine == Repeat("a", QueryLen + 1)

LongSources == {LongLine, LongLine \o <<LF, "a">>, <<LF>> \o LongLine}

\* two lines with a blank line between them
GappedSource == <<"a", LF, LF, "a">>

Sources == SeqsUpTo(Alphabet, MaxLen) \cup LongSources \cup {GappedSource}

\* the selectbox of app.py
SupportedLanguages == {"python", "javascript", "java", "cpp", "csharp", "go"}

\* the languages a body is drawn with
Languages == {"python", "ruby"}

\* "options" of a body: left out, null, or an object
AbsentOptions == [absent |-> TRUE]
NoneOptions == [none |-> TRUE]
Options(b) == [include_youtube |-> b]

PayloadOptions == {AbsentOptions, NoneOptions, Options(TRUE), Options(FALSE)}

\* JSON bodies: "code" may be left out
Payloads ==
    [hasCode : {TRUE}, code : Sources, language : Languages, options : PayloadOptions]
    \cup [hasCode : {FALSE}, code : {<<>>}, language : Languages, options : PayloadOptions]

\* bodies app.py builds from its form
FormPayloads ==
    [hasCode : {TRUE}, code : Sources, language : Languages \cap SupportedLanguages,
     options : {Options(TRUE), Options(FALSE)}]

\* video ids of search items; an item may lack id.videoId
VideoIdA == <<"a", "b", "c">>
VideoIdH == <<"h", "t", "t", "p", "X", "y", "Z">>

Items ==
    [title : {"T"}, hasVideoId : {TRUE}, videoId : {VideoIdA, VideoIdH}]
    \cup [title : {"T"}, hasVideoId : {FALSE}, videoId : {<<>>}]

\* what req.execute() does: raise, or return a response with items
Raises == [raises |-> TRUE, items |-> <<>>]
Outcomes == {Raises} \cup [raises : {FALSE}, items : SeqsUpTo(Items, MaxItems)]

----------------------------------------------------------------------------
(* backend/main.py *)

\* the parsed body: options left out take the default Options()
ExplainRequest(p) ==
    [code |-> p.code, language |-> p.language,
     options |-> IF p.options = AbsentOptions THEN Options(TRUE) ELSE p.options]

NoRequest == [code |-> <<>>, language |-> "", options |-> NoneOptions]

\* the loop of explain: enumerate(req.code.splitlines(), start=1), keeping
\* the lines with a non-empty strip()
EnumerateStart == 1

ExplainLine(i, line) ==
    [line_number |-> i, code |-> line, explanation |-> <<"Mock explanation for line", i>>]

\* the lines numbered after the blank ones are dropped
ExplainLinesRenumbered(code) ==
    LET sl  == splitlines(code)
        Keep(l) == strip(l) # <<>>
        kept == SelectSeq(sl, Keep)
    IN  [k \in 1..Len(kept) |-> ExplainLine(k - 1 + EnumerateStart, kept[k])]

ExplainLines(code) ==
    LET sl  == splitlines(code)
        all == [k \in 1..Len(sl) |-> ExplainLine(k - 1 + EnumerateStart, sl[k])]
        Keep(e) == strip(e.code) # <<>>
    IN  SelectSeq(all, Keep)

\* req.code.splitlines()[0][:50]; raises IndexError when there is no line
QueryRaises(code) == splitlines(code) = <<>>

Query(code) == Slice(splitlines(code)[1], QueryLen)

WatchUrl == <<"h", "t", "t", "p", "s", ":", "/", "/", "w", "w", "w", ".",
              "y", "o", "u", "t", "u", "b", "e", ".", "c", "o", "m", "/",
              "w", "a", "t", "c", "h", "?", "v", "=">>

\* the dict youtube_search appends per item
VideoEntry(item) ==
    [title |-> item.title, video_id |-> item.videoId, url |-> WatchUrl \o item.videoId]

\* the except clause of youtube_search
SearchFailed == [videos |-> <<>>, how |-> "raised"]

\* the except clause returning the videos collected before the exception
youtube_search_partial(key, lib, query, outcome) ==
    IF ~key \/ ~lib THEN [videos |-> <<>>, how |-> "unconfigured"]
    ELSE IF outcome.raises THEN SearchFailed
    ELSE LET bad == {k \in 1..Len(outcome.items) : ~outcome.items[k].hasVideoId}
             n   == IF bad = {} THEN Len(outcome.items) ELSE Min(bad) - 1
         IN  [videos |-> [k \in 1..n |-> VideoEntry(outcome.items[k])],
              how |-> IF bad = {} THEN "ok" ELSE "raised"]

\* youtube_search(query): the outcome is what the search API does when called
youtube_search(key, lib, query, outcome) ==
    IF ~key \/ ~lib THEN [videos |-> <<>>, how |-> "unconfigured"]
    ELSE IF outcome.raises THEN SearchFailed
    ELSE IF \E k \in 1..Len(outcome.items) : ~outcome.items[k].hasVideoId
         THEN SearchFailed
    ELSE [videos |-> [k \in 1..Len(outcome.items) |-> VideoEntry(outcome.items[k])],
          how |-> "ok"]

NoResponse == [none |-> TRUE]

\* the body of HTTPException(status_code=500, detail=...)
InternalError == [detail |-> "Internal server error"]

\* the 422 body FastAPI sends for a body ExplainRequest rejects
Unprocessable == [detail |-> "validation error"]

\* the dict explain returns
ExplainBody(ls, vs) ==
    [summary |-> <<"Explained", Len(ls), "lines.">>, lines |-> ls, related_videos |-> vs]

\* response_model=ExplainResponse keeps the model's three fields
ExplainResponse(body) ==
    [summary |-> body.summary, lines |-> body.lines, related_videos |-> body.related_videos]

NotShown == [kind |-> "none"]

Requests == DOMAIN pc

\* FastAPI parses the body into ExplainRequest before calling explain
ValidateRequest(r) ==
    /\ pc[r] = "Received"
    /\ IF payload[r].hasCode
       THEN /\ req' = [req EXCEPT ![r] = ExplainRequest(payload[r])]
            /\ pc' = [pc EXCEPT ![r] = "Validated"]
            /\ UNCHANGED <<resp, status, raisedBy>>
       ELSE /\ pc' = [pc EXCEPT ![r] = "Errored"]
            /\ resp' = [resp EXCEPT ![r] = Unprocessable]
            /\ status' = [status EXCEPT ![r] = 422]
            /\ raisedBy' = [raisedBy EXCEPT ![r] = "ExplainRequest"]
            /\ UNCHANGED req
    /\ UNCHANGED <<apiKey, haveLib, origin, payload, lines, videos, queries,
                   searched, logged, shown>>
    /\ UNCHANGED displayVars

\* explain, lines 79-82
BuildLines(r) ==
    /\ pc[r] = "Validated"
    /\ lines' = [lines EXCEPT ![r] = ExplainLines(req[r].code)]
    /\ pc' = [pc EXCEPT ![r] = "Dispatched"]
    /\ UNCHANGED <<apiKey, haveLib, origin, payload, req, videos, queries,
                   searched, resp, status, raisedBy, logged, shown>>
    /\ UNCHANGED displayVars

\* the except clause of explain
Fail(r, exc) ==
    /\ pc' = [pc EXCEPT ![r] = "Errored"]
    /\ resp' = [resp EXCEPT ![r] = InternalError]
    /\ status' = [status EXCEPT ![r] = 500]
    /\ raisedBy' = [raisedBy EXCEPT ![r] = "related_videos"]
    /\ logged' = [logged EXCEPT ![r] = logged[r] \cup {exc}]
    /\ UNCHANGED <<videos, queries, searched>>

\* explain, line 83
RelatedVideos(r) ==
    /\ pc[r] = "Dispatched"
    /\ IF req[r].options = NoneOptions THEN Fail(r, "AttributeError")
       ELSE IF ~req[r].options.include_youtube
       THEN /\ videos' = [videos EXCEPT ![r] = <<>>]
            /\ pc' = [pc EXCEPT ![r] = "Searched"]
            /\ UNCHANGED <<queries, searched, resp, status, raisedBy, logged>>
       ELSE IF QueryRaises(req[r].code) THEN Fail(r, "IndexError")
       ELSE \E outcome \in Outcomes :
              LET q   == Query(req[r].code)
                  res == youtube_search(apiKey, haveLib, q, outcome)
              IN  /\ queries' = [queries EXCEPT ![r] = Append(queries[r], q)]
                  /\ searched' = [searched EXCEPT ![r] = res.how]
                  /\ videos' = [videos EXCEPT ![r] = res.videos]
                  /\ logged' = [logged EXCEPT ![r] =
                                  IF res.how = "raised"
                                  THEN logged[r] \cup {"YouTube API error"}
                                  ELSE logged[r]]
                  /\ pc' = [pc EXCEPT ![r] = "Searched"]
                  /\ UNCHANGED <<resp, status, raisedBy>>
    /\ UNCHANGED <<apiKey, haveLib, origin, payload, req, lines, shown>>
    /\ UNCHANGED displayVars

\* explain, line 84: the returned dict
Assemble(r) ==
    /\ pc[r] = "Searched"
    /\ resp' = [resp EXCEPT ![r] = ExplainBody(lines[r], videos[r])]
    /\ pc' = [pc EXCEPT ![r] = "Assembled"]
    /\ UNCHANGED <<apiKey, haveLib, origin, payload, req, lines, videos, queries,
                   searched, status, raisedBy, logged, shown>>
    /\ UNCHANGED displayVars

\* the response leaves through response_model=ExplainResponse with status 200
Respond(r) ==
    /\ pc[r] = "Assembled"
    /\ resp' = [resp EXCEPT ![r] = ExplainResponse(resp[r])]
    /\ status' = [status EXCEPT ![r] = 200]
    /\ pc' = [pc EXCEPT ![r] = "Sent"]
    /\ UNCHANGED <<apiKey, haveLib, origin, payload, req, lines, videos, queries,
                   searched, raisedBy, logged, shown>>
    /\ UNCHANGED displayVars

\* the orchestrator state a position of explain stands for
Stage(r) == IF pc[r] = "Searched" THEN "Dispatched" ELSE pc[r]

----------------------------------------------------------------------------
(* app.py *)

\* v.get(k) of a dict whose values are texts; None and "" are both falsy
Get(v, k) == IF k \in DOMAIN v THEN v[k] ELSE <<>>

\* a or b
Or(a, b) == IF a # <<>> THEN a ELSE b

HttpPrefix == <<"h", "t", "t", "p">>

\* one turn of the loop of display_youtube_list: what it renders for entry v
DisplayEntry(v) ==
    LET title    == IF "title" \in DOMAIN v THEN v.title ELSE "YouTube video"
        video_id == Or(Or(Get(v, "video_id"), Get(v, "id")), Get(v, "url"))
        url      == IF startswith(video_id, HttpPrefix) THEN video_id
                    ELSE WatchUrl \o video_id
    IN  IF video_id = <<>> THEN <<>> ELSE <<[title |-> title, url |-> url]>>

\* the "if explain_btn ..." block: the empty-code guard, then the post
SubmitForm(r) ==
    /\ pc[r] = "Form"
    /\ pc' = [pc EXCEPT ![r] = IF strip(payload[r].code) = <<>> THEN "Warned"
                                ELSE "Received"]
    /\ UNCHANGED <<apiKey, haveLib, origin, payload, req, lines, videos, queries,
                   searched, resp, status, raisedBy, logged, shown>>
    /\ UNCHANGED displayVars

FallbackText == "No detailed line-by-line returned."

\* post_json returned: st.error on an HTTP error, else the result is rendered and
\* display_youtube_list is called on its videos
ShowResult(r) ==
    /\ origin[r] = "ui"
    /\ pc[r] \in {"Sent", "Errored"}
    /\ shown[r] = NotShown
    /\ di = Len(dvideos)
    /\ IF status[r] >= 400
       THEN /\ shown' = [shown EXCEPT ![r] = [kind |-> "error"]]
            /\ UNCHANGED displayVars
       ELSE LET vids == resp[r].related_videos
                call == payload[r].options.include_youtube /\ vids # <<>>
            IN  /\ shown' = [shown EXCEPT ![r] =
                               [kind |-> "result",
                                summary |-> resp[r].summary,
                                body |-> IF resp[r].lines # <<>> THEN "lines"
                                         ELSE FallbackText,
                                videos |-> call]]
                /\ dvideos' = IF call THEN vids ELSE dvideos
                /\ di' = IF call THEN 0 ELSE di
                /\ played' = IF call THEN <<>> ELSE played
    /\ UNCHANGED <<apiKey, haveLib, origin, payload, pc, req, lines, videos, queries,
                   searched, resp, status, raisedBy, logged>>

\* display_youtube_list: the next turn of "for v in videos"
DisplayStep ==
    /\ di < Len(dvideos)
    /\ di' = di + 1
    /\ played' = played \o DisplayEntry(dvideos[di + 1])
    /\ UNCHANGED dvideos
    /\ UNCHANGED reqVars

----------------------------------------------------------------------------
(* Specifications *)

\* the requests are in flight with the bodies p, posted by o
InitRequests(o, p) ==
    /\ apiKey \in BOOLEAN
    /\ haveLib \in BOOLEAN
    /\ origin = o
    /\ payload = p
    /\ pc = [r \in DOMAIN o |-> IF o[r] = "ui" THEN "Form" ELSE "Received"]
    /\ req = [r \in DOMAIN o |-> NoRequest]
    /\ lines = [r \in DOMAIN o |-> <<>>]
    /\ videos = [r \in DOMAIN o |-> <<>>]
    /\ queries = [r \in DOMAIN o |-> <<>>]
    /\ searched = [r \in DOMAIN o |-> "no"]
    /\ resp = [r \in DOMAIN o |-> NoResponse]
    /\ status = [r \in DOMAIN o |-> 0]
    /\ raisedBy = [r \in DOMAIN o |-> "none"]
    /\ logged = [r \in DOMAIN o |-> {}]
    /\ shown = [r \in DOMAIN o |-> NotShown]

\* one request, from the form of app.py or posted directly
Init ==
    /\ \/ \E p \in FormPayloads : InitRequests(<<"ui">>, <<p>>)
       \/ \E p \in Payloads : InitRequests(<<"api">>, <<p>>)
    /\ dvideos = <<>>
    /\ di = 0
    /\ played = <<>>

Next ==
    \/ \E r \in Requests : SubmitForm(r)
    \/ \E r \in Requests : ValidateRequest(r)
    \/ \E r \in Requests : BuildLines(r)
    \/ \E r \in Requests : RelatedVideos(r)
    \/ \E r \in Requests : Assemble(r)
    \/ \E r \in Requests : Respond(r)
    \/ \E r \in Requests : ShowResult(r)
    \/ DisplayStep

Spec == Init /\ [][Next]_vars

\* two concurrent requests with the same body but for include_youtube
InitPair ==
    /\ \E p \in Payloads :
         /\ p.hasCode
         /\ p.options = Options(FALSE)
         /\ InitRequests(<<"api", "api">>, <<p, [p EXCEPT !.options = Options(TRUE)]>>)
    /\ dvideos = <<>>
    /\ di = 0
    /\ played = <<>>

NextPair ==
    \/ \E r \in Requests : ValidateRequest(r)
    \/ \E r \in Requests : BuildLines(r)
    \/ \E r \in Requests : RelatedVideos(r)
    \/ \E r \in Requests : Assemble(r)
    \/ \E r \in Requests : Respond(r)

SpecPair == InitPair /\ [][NextPair]_vars

\* the entries display_youtube_list may be handed: those of youtube_search, and
\* dicts carrying the identifier under "video_id", "id" or "url", or not at all
FullUrl == <<"h", "t", "t", "p", "s", ":", "/", "/", "y", ".", "b", "e", "/", "k">>

Identifiers == {<<>>, VideoIdA, VideoIdH, FullUrl}

DisplayEntries ==
    {VideoEntry(i) : i \in {j \in Items : j.hasVideoId}}
    \cup [title : {"T"}, video_id : Identifiers]
    \cup [title : {"T"}, id : Identifiers]
    \cup [url : {<<>>, FullUrl}]
    \cup {[title |-> "T"]}

\* display_youtube_list called on a list of entries; no request in flight
InitDisplay ==
    /\ InitRequests(<<>>, <<>>)
    /\ dvideos \in SeqsUpTo(DisplayEntries, MaxVideos)
    /\ di = 0
    /\ played = <<>>

NextDisplay == DisplayStep

SpecDisplay == InitDisplay /\ [][NextDisplay]_vars

----------------------------------------------------------------------------
(* Properties *)

Terminal(r) == pc[r] \in {"Sent", "Errored"}

ClientError(r) == status[r] >= 400 /\ status[r] <= 499

Blank(code) == strip(code) = <<>>

\* C1: a request whose source text is empty or all whitespace ends in a
\* 4xx validation error, and neither the explanation step nor the video
\* search runs for it, whatever include_youtube is.
C1_BlankSourceRejected ==
    \A r \in Requests :
        (payload[r].hasCode /\ Blank(payload[r].code) /\ pc[r] # "Form") =>
            /\ pc[r] \in {"Warned", "Received", "Errored"}
            /\ queries[r] = <<>>
            /\ pc[r] = "Errored" => ClientError(r)

\* C2: when youtube_search fails (no API key, no client library, an exception
\* while searching) the request is not ended by an error: it goes on to a 200
\* response whose related_videos is empty.
C2_VideoFailureIsSoft ==
    \A r \in Requests :
        searched[r] \in {"unconfigured", "raised"} =>
            /\ pc[r] \in {"Searched", "Assembled", "Sent"}
            /\ videos[r] = <<>>
            /\ pc[r] = "Searched" => ENABLED Assemble(r)
            /\ pc[r] = "Assembled" => (resp[r].related_videos = <<>> /\ ENABLED Respond(r))
            /\ pc[r] = "Sent" => (status[r] = 200 /\ resp[r].related_videos = <<>>)

C2_Witness ==
    \E r \in Requests :
        /\ searched[r] = "raised"
        /\ queries[r] # <<>>
        /\ pc[r] = "Sent"
        /\ status[r] = 200
        /\ resp[r].related_videos = <<>>

\* position k of s ends a line: a line feed, or a carriage return that no line
\* feed follows
EndsLine(s, k) ==
    \/ s[k] = LF
    \/ s[k] = CR /\ ~(k < Len(s) /\ s[k + 1] = LF)

\* the 1-based number of the line position p of s lies on, blank lines counted
LineNumberAt(s, p) == 1 + Cardinality({k \in 1..(p - 1) : EndsLine(s, k)})

\* the text of the line position p of s lies on
LineTextAt(s, p) ==
    LET first == Min({k \in 1..p : \A j \in k..p : ~IsLineBreak(s[j])})
        last  == Max({k \in p..Len(s) : \A j \in p..k : ~IsLineBreak(s[j])})
    IN  SubSeq(s, first, last)

\* ls are the non-blank lines of s, in order, under their numbers in s
NumbersNonBlankLines(s, ls) ==
    /\ \A i \in 1..Len(ls) : \A j \in 1..Len(ls) :
          i < j => ls[i].line_number < ls[j].line_number
    /\ \A i \in 1..Len(ls) :
          /\ ls[i].line_number >= 1
          /\ strip(ls[i].code) # <<>>
          /\ \E p \in 1..Len(s) :
                /\ ~IsLineBreak(s[p])
                /\ LineNumberAt(s, p) = ls[i].line_number
                /\ LineTextAt(s, p) = ls[i].code
    /\ \A p \in 1..Len(s) :
          ~IsSpace(s[p]) =>
              \E i \in 1..Len(ls) :
                  /\ ls[i].line_number = LineNumberAt(s, p)
                  /\ ls[i].code = LineTextAt(s, p)

LinesBuilt(r) ==
    \/ pc[r] \in {"Dispatched", "Searched", "Assembled", "Sent"}
    \/ pc[r] = "Errored" /\ raisedBy[r] = "related_videos"

\* C3: the numbered lines of /explain are exactly the non-blank lines of the
\* source, in source order, each under its 1-based position in the source with
\* blank lines counted: numbers strictly increase, no entry is blank, no
\* non-blank line is missing; the response carries these lines.
C3_LinesKeepSourceNumbers ==
    \A r \in Requests :
        /\ LinesBuilt(r) => NumbersNonBlankLines(payload[r].code, lines[r])
        /\ pc[r] \in {"Assembled", "Sent"} => resp[r].lines = lines[r]

C3_Witness ==
    \E r \in Requests :
        /\ payload[r].code = GappedSource
        /\ pc[r] = "Sent"
        /\ Len(resp[r].lines) = 2
        /\ resp[r].lines[1].line_number = 1
        /\ resp[r].lines[2].line_number = 3

\* C5: a request whose declared language is not a supported one fails
\* validation (UnsupportedLanguage): it ends in the error state with a 4xx
\* status and never gets as far as an explanation.
C5_UnsupportedLanguageRejected ==
    \A r \in Requests :
        payload[r].language \notin SupportedLanguages =>
            /\ pc[r] \in {"Received", "Errored"}
            /\ pc[r] = "Errored" => (ClientError(r) /\ raisedBy[r] = "ExplainRequest")

\* the identifier of a video entry
Identifier(v) == Or(Or(Get(v, "video_id"), Get(v, "id")), Get(v, "url"))

HttpScheme == <<"h", "t", "t", "p", ":", "/", "/">>
HttpsScheme == <<"h", "t", "t", "p", "s", ":", "/", "/">>

FullUrlForm(id) == startswith(id, HttpScheme) \/ startswith(id, HttpsScheme)

\* what the entries vs are to be rendered as
RECURSIVE Normalized(_)
Normalized(vs) ==
    IF vs = <<>> THEN <<>>
    ELSE LET v  == Head(vs)
             id == Identifier(v)
             t  == IF "title" \in DOMAIN v THEN v.title ELSE "YouTube video"
         IN  (IF id = <<>> THEN <<>>
              ELSE <<[title |-> t,
                      url |-> IF FullUrlForm(id) THEN id ELSE WatchUrl \o id]>>)
             \o Normalized(Tail(vs))

\* C6: of the video entries handed to display_youtube_list, one with an
\* identifier in full-URL form plays that URL unchanged, one with a bare id
\* plays https://www.youtube.com/watch?v=<id>, and one with an empty or absent
\* identifier is dropped without touching the other entries.
C6_IdentifierNormalized ==
    played = Normalized(SubSeq(dvideos, 1, di))

\* the order of the orchestrator states
NextStage(a, b) ==
    <<a, b>> \in {<<"Form", "Warned">>, <<"Form", "Received">>,
                  <<"Received", "Validated">>, <<"Validated", "Dispatched">>,
                  <<"Dispatched", "Assembled">>, <<"Assembled", "Sent">>,
                  <<"Received", "Errored">>, <<"Dispatched", "Errored">>}

StageStep(r) ==
    Stage(r)' # Stage(r) =>
        /\ NextStage(Stage(r), Stage(r)')
        /\ Stage(r)' \in {"Validated", "Dispatched"} => queries'[r] = <<>>
        /\ Stage(r)' = "Errored" =>
              \/ Stage(r) = "Received" /\ raisedBy'[r] = "ExplainRequest"
              \/ Stage(r) = "Dispatched" /\ raisedBy'[r] # "related_videos"

\* C7: a request moves Received, Validated, Dispatched, Assembled, Sent in
\* that order; Errored is entered only from Received, by a validation failure,
\* or from Dispatched, by a failure of the explanation step; the video search
\* is not called before validation, and the video step never leads to Errored.
C7_StateOrder == [][\A r \in Requests : StageStep(r)]_vars

\* C8: a 200 response whose lines are empty carries a non-empty fallback
\* explanation text beside the summary.
C8_FallbackExplanation ==
    \A r \in Requests :
        (pc[r] = "Sent" /\ resp[r].lines = <<>>) =>
            /\ "explanation" \in DOMAIN resp[r]
            /\ resp[r].explanation # <<>>

NonEmptyLines(code) ==
    LET NonEmpty(l) == l # <<>>
    IN  SelectSeq(splitlines(code), NonEmpty)

\* C9: the query youtube_search is called with is the first non-empty line of
\* the source cut to 50 characters, and is never the empty string.
C9_QueryIsFirstNonEmptyLine ==
    \A r \in Requests :
        \A k \in 1..Len(queries[r]) :
            /\ queries[r][k] # <<>>
            /\ NonEmptyLines(req[r].code) # <<>>
            /\ queries[r][k] = Slice(NonEmptyLines(req[r].code)[1], QueryLen)

\* C10: a request with include_youtube false never calls youtube_search and
\* answers with empty related_videos, and its summary and lines are those of
\* the request with the same source and include_youtube true.
C10_OptionOnlyAffectsVideos ==
    \A r \in Requests : \A t \in Requests :
        ( /\ payload[r].options = Options(FALSE)
          /\ payload[t].options = Options(TRUE)
          /\ payload[t] = [payload[r] EXCEPT !.options = Options(TRUE)] ) =>
            /\ queries[r] = <<>>
            /\ pc[r] = "Sent" => resp[r].related_videos = <<>>
            /\ (pc[r] = "Sent" /\ Terminal(t)) =>
                  /\ pc[t] = "Sent"
                  /\ resp[t].summary = resp[r].summary
                  /\ resp[t].lines = resp[r].lines

====
